---- MODULE Spec2Model ----
(***************************************************************************)
(* Model of the Cleanup cog (redbot/cogs/cleanup/cleanup.py): the          *)
(* confirmation prompt, the paged history scan that builds the batch of    *)
(* messages to delete, the audit log line and the deletion dispatch.       *)
(*                                                                         *)
(* Text is a sequence of one-character strings.  Time is counted in hours; *)
(* a message id is the message's position in the channel, oldest first.    *)
(***************************************************************************)
EXTENDS Integers, Sequences, FiniteSets, TLC

VARIABLES channel, is_bot, ctx, pc, call, result, to_delete, events

vars == <<channel, is_bot, ctx, pc, call, result, to_delete, events>>

(***************************************************************************)
(* Bounds of the model.                                                    *)
(***************************************************************************)
\* longest channel history before the command message (command handlers)
MaxLen == 2
\* longest channel history before the command message (direct calls of the
\* collector)
MaxScanLen == 4

(***************************************************************************)
(* Constants of the program.                                               *)
(***************************************************************************)
None == 0
HoursPerDay == 24
\* (ctx.message.created_at - message.created_at).days < 14
WindowDays == 14
\* if number > 100
Threshold == 100
\* limit=1000 in every counted subcommand
CallerLimit == 1000

\* identities: self.bot.user, the invoking moderator, another member
BotId == 1
ActorId == 2
OtherId == 3

\* creation time of the command message
Now == 20 * HoursPerDay

Range(s) == {s[i] : i \in 1..Len(s)}

(***************************************************************************)
(* Text helpers (str.startswith, `in`, str.lower).                         *)
(***************************************************************************)
StartsWith(c, p) == Len(p) <= Len(c) /\ SubSeq(c, 1, Len(p)) = p

Contains(c, t) ==
    \E i \in 1..(Len(c) + 1) : i + Len(t) - 1 <= Len(c) /\ SubSeq(c, i, i + Len(t) - 1) = t

LowerChar(ch) ==
    CASE ch = "Y" -> "y"
      [] ch = "N" -> "n"
      [] ch = "X" -> "x"
      [] OTHER -> ch

Lower(c) == [i \in 1..Len(c) |-> LowerChar(c[i])]

(***************************************************************************)
(* Messages.                                                               *)
(***************************************************************************)
Msg(id, author, content, created_at) ==
    [id |-> id, author |-> author, content |-> content, created_at |-> created_at]

\* timedelta.days: whole days, rounded towards minus infinity
Days(td) == td \div HoursPerDay

\* (ctx.message.created_at - message.created_at).days
AgeDays(ctxmsg, m) == Days(ctxmsg.created_at - m.created_at)

(***************************************************************************)
(* channel.history(limit=, before=, after=): with no `after` the messages  *)
(* older than `before`, newest first; with `after` the messages newer than *)
(* `after`, oldest first (and, when `before` is given too, only those      *)
(* older than `before`).  At most `limit` messages are retrieved; limit    *)
(* None retrieves them all.  The result is a sequence of message ids.      *)
(***************************************************************************)
Take(s, n) == IF n = None \/ n >= Len(s) THEN s ELSE SubSeq(s, 1, n)

\* ids lo..hi in ascending order
Ascending(lo, hi) == [i \in 1..(IF hi >= lo THEN hi - lo + 1 ELSE 0) |-> lo + i - 1]

\* ids hi..lo in descending order
Descending(hi, lo) == [i \in 1..(IF hi >= lo THEN hi - lo + 1 ELSE 0) |-> hi - i + 1]

SelectSeqBelow(s, b) == SelectSeq(s, LAMBDA x : x < b)

HistoryThroughBefore(chan, limit, before, after) ==
    IF after = None
    THEN Take(Descending(IF before = None THEN Len(chan) ELSE before, 1), limit)
    ELSE LET got == Take(Ascending(after + 1, Len(chan)), limit)
         IN IF before = None THEN got ELSE SelectSeqBelow(got, before + 1)

History(chan, limit, before, after) ==
    IF after = None
    THEN Take(Descending(IF before = None THEN Len(chan) ELSE before - 1, 1), limit)
    ELSE LET got == Take(Ascending(after + 1, Len(chan)), limit)
         IN IF before = None THEN got ELSE SelectSeqBelow(got, before)

(***************************************************************************)
(* get_messages_for_deletion.  The scan state holds the locals to_delete,  *)
(* too_old and message, and a record of what the scan did: one "fetch"     *)
(* entry per call of channel.history (with the `before` cursor it was      *)
(* given) and one "inspect" entry per message the loop body looked at.     *)
(***************************************************************************)
ScanEv(type, id) == [type |-> type, id |-> id]

\* line 57: while not too_old and len(to_delete) - 1 < number
LoopCond(too_old, n, number) == ~too_old /\ n - 1 < number

\* lines 62-63: the message is appended
AppendsIgnoringAge(number, n, passes, days) ==
    (number = 0 \/ n - 1 < number) /\ passes
Appends(number, n, passes, days) ==
    (number = 0 \/ n - 1 < number) /\ passes /\ days < WindowDays

\* line 65
TooOldAbove(days) == days > WindowDays
TooOld(days) == days >= WindowDays

\* line 68
Enough(number, n) == number # 0 /\ n >= number

\* lines 62-69: the loop body for one message; `stop` records a break
ScanStep(st, m, number, check, ctxmsg) ==
    LET days == AgeDays(ctxmsg, m)
        n == Len(st.to_delete)
        seen == [st EXCEPT !.message = m.id,
                           !.scanlog = Append(@, ScanEv("inspect", m.id))]
    IN IF Appends(number, n, check[m.id], days)
       THEN [seen EXCEPT !.to_delete = Append(@, m.id)]
       ELSE IF TooOld(days) THEN [seen EXCEPT !.too_old = TRUE, !.stop = TRUE]
       ELSE IF Enough(number, n) THEN [seen EXCEPT !.stop = TRUE]
       ELSE seen

\* lines 59-69: the loop over page[lo..hi] in page order, up to a break
\* (the range is halved so that a long page does not nest deeply)
RECURSIVE ScanPage(_, _, _, _, _, _, _, _)
ScanPage(chan, page, lo, hi, st, number, check, ctxmsg) ==
    IF st.stop \/ lo > hi THEN st
    ELSE IF lo = hi THEN ScanStep(st, chan[page[lo]], number, check, ctxmsg)
    ELSE LET mid == (lo + hi) \div 2
         IN ScanPage(chan, page, mid + 1, hi,
                     ScanPage(chan, page, lo, mid, st, number, check, ctxmsg),
                     number, check, ctxmsg)

RECURSIVE ScanLoop(_, _, _, _, _, _, _, _)
ScanLoop(chan, st, number, check, limit, before, after, ctxmsg) ==
    IF ~LoopCond(st.too_old, Len(st.to_delete), number) THEN st
    ELSE LET page == History(chan, limit, before, after)
             st0 == [st EXCEPT !.message = None, !.stop = FALSE,
                               !.scanlog = Append(@, ScanEv("fetch", before))]
             st1 == ScanPage(chan, page, 1, Len(page), st0, number, check, ctxmsg)
         IN IF st1.message = None THEN st1
            ELSE ScanLoop(chan, st1, number, check, limit, st1.message, after, ctxmsg)

\* lines 54-55: to_delete = [], too_old = False
NoResult == [to_delete |-> <<>>, too_old |-> FALSE, message |-> None, stop |-> FALSE,
             scanlog |-> <<>>]

GetMessagesForDeletion(ctxmsg, chan, number, check, limit, before, after) ==
    ScanLoop(chan, NoResult, number, check, limit, before, after, ctxmsg)

(***************************************************************************)
(* Invocation context (RedContext): the subcommand, its arguments, the     *)
(* invoking author and the id of the command message.                      *)
(***************************************************************************)
Context(cmd, author, message, number, arg, message_id, can_mass_purge) ==
    [cmd |-> cmd, author |-> author, message |-> message, number |-> number,
     arg |-> arg, message_id |-> message_id, can_mass_purge |-> can_mass_purge,
     member |-> None, uid |-> None]

NoContext == Context("none", None, None, 0, <<>>, None, FALSE)

NoCall == [number |-> 0, check |-> <<>>, limit |-> None, before |-> None, after |-> None]

Call(number, check, limit, before, after) ==
    [number |-> number, check |-> check, limit |-> limit, before |-> before, after |-> after]

(***************************************************************************)
(* Channel histories: ages never decrease towards the older messages.      *)
(***************************************************************************)
AgeSeqs(n, ages) ==
    {a \in [1..n -> ages] : \A i \in 1..n : \A j \in 1..n : i < j => a[i] >= a[j]}

\* ages, in hours, of the messages the collector is called on
ScanAges == {HoursPerDay, 2 * HoursPerDay, 3 * HoursPerDay,
             WindowDays * HoursPerDay - 1, WindowDays * HoursPerDay,
             (WindowDays + 1) * HoursPerDay}

\* requested counts and page sizes of the direct calls
ScanNumbers == {0, 1, 2, 10}
ScanLimits == {1, 2}

PlainText == <<"b">>

\* the history followed by the command message
WithCommand(hist, author, content) ==
    Append(hist, Msg(Len(hist) + 1, author, content, Now))

(***************************************************************************)
(* Direct calls of get_messages_for_deletion: any predicate, any history,  *)
(* either scan direction.                                                  *)
(***************************************************************************)
InitCollect ==
    \E n \in 0..MaxScanLen : \E a \in AgeSeqs(n, ScanAges) :
        /\ channel = WithCommand([i \in 1..n |-> Msg(i, OtherId, PlainText, Now - a[i])],
                                 ActorId, PlainText)
        /\ ctx = Context("call", ActorId, n + 1, 0, <<>>, None, FALSE)
        /\ \E check \in [1..(n + 1) -> BOOLEAN] :
              \/ /\ check[n + 1]
                 /\ \E number \in ScanNumbers : \E limit \in ScanLimits :
                        call = Call(number, check, limit, n + 1, None)
              \/ \E anchor \in 1..n : call = Call(0, check, None, None, anchor)
        /\ is_bot = TRUE
        /\ pc = "call"
        /\ result = NoResult
        /\ to_delete = <<>>
        /\ events = <<>>

get_messages_for_deletion ==
    /\ pc = "call"
    /\ result' = GetMessagesForDeletion(channel[ctx.message], channel, call.number,
                                        call.check, call.limit, call.before, call.after)
    /\ to_delete' = result'.to_delete
    /\ pc' = "returned"
    /\ UNCHANGED <<channel, is_bot, ctx, call, events>>

NextCollect == get_messages_for_deletion

SpecCollect == InitCollect /\ [][NextCollect]_vars

(***************************************************************************)
(* What an invocation did, in order: replies sent, the response the gate   *)
(* received, the message lookup, the history scan, the audit log line and  *)
(* the deletion call with the batch it was given.                          *)
(***************************************************************************)
Ev(type, what, n, ids, content, author) ==
    [type |-> type, what |-> what, n |-> n, ids |-> ids, content |-> content,
     author |-> author]

Send(what, n) == Ev("send", what, n, <<>>, <<>>, BotId)
Scanned(r) == Ev("scan", "history", Len(r.to_delete), <<>>, <<>>, None)
Logged(cmd, n) == Ev("log", cmd, n, <<>>, <<>>, None)
MassPurge(batch) == Ev("mass_purge", "bulk", Len(batch), batch, <<>>, None)
SlowDeletion(batch) == Ev("slow_deletion", "sequential", Len(batch), batch, <<>>, None)
Raised(what) == Ev("raise", what, 0, <<>>, <<>>, None)
\* what a deletion strategy removed before it ended
Deleted(what, removed) == Ev("deleted", what, Len(removed), removed, <<>>, None)

(***************************************************************************)
(* Guild, prefixes and registered commands.                                *)
(***************************************************************************)
Members == {BotId, ActorId, OtherId}

MemberName(id) ==
    CASE id = BotId -> <<"R", "e", "d">>
      [] id = ActorId -> <<"M", "o", "d">>
      [] OTHER -> <<"T", "o", "m">>

Prefixes == << <<"!">> >>

CommandNames == { <<"p">>, <<"c">> }

\* content of a command message
CommandText == <<"!", "c">>

Digit(ch) ==
    CASE ch = "0" -> 0 [] ch = "1" -> 1 [] ch = "2" -> 2 [] ch = "3" -> 3
      [] ch = "4" -> 4 [] ch = "5" -> 5 [] ch = "6" -> 6 [] ch = "7" -> 7
      [] ch = "8" -> 8 [] ch = "9" -> 9 [] OTHER -> -1

\* int(user) succeeds
IsInt(s) == Len(s) > 0 /\ \A i \in 1..Len(s) : Digit(s[i]) >= 0

RECURSIVE IntOf(_)
IntOf(s) == IF Len(s) = 0 THEN 0
            ELSE 10 * IntOf(SubSeq(s, 1, Len(s) - 1)) + Digit(s[Len(s)])

\* MemberConverter().convert: a member by id or by name, None for BadArgument
ConvertMember(user) ==
    IF IsInt(user) /\ IntOf(user) \in Members THEN IntOf(user)
    ELSE IF \E m \in Members : MemberName(m) = user
         THEN CHOOSE m \in Members : MemberName(m) = user
         ELSE None

\* s.split(' ')[0]
RECURSIVE UntilSpace(_)
UntilSpace(s) == IF Len(s) = 0 \/ s[1] = " " THEN <<>>
                 ELSE <<s[1]>> \o UntilSpace(Tail(s))

\* discord.utils.find(content.startswith, prefixes): the first prefix, or none
RECURSIVE FindPrefix(_, _)
FindPrefix(content, prefixes) ==
    IF Len(prefixes) = 0 THEN <<>>
    ELSE IF StartsWith(content, prefixes[1]) THEN prefixes[1]
    ELSE FindPrefix(content, Tail(prefixes))

(***************************************************************************)
(* The predicates the subcommands hand to the collector.                   *)
(***************************************************************************)
\* lines 103-109
text_check(c, m) == Contains(m.content, c.arg) \/ m.id = c.message

\* lines 153-159
user_check(c, m) == m.author = c.uid \/ m.id = c.message

\* line 43: check=lambda x: True
default_check(c, m) == TRUE

\* lines 271-280
bot_check(c, m) ==
    IF m.author = BotId THEN TRUE
    ELSE IF m.id = c.message THEN TRUE
    ELSE LET p == FindPrefix(m.content, Prefixes)
         IN IF Len(p) > 0
            THEN UntilSpace(SubSeq(m.content, Len(p) + 1, Len(m.content))) \in CommandNames
            ELSE FALSE

\* lines 324-325
use_re(pattern) ==
    Len(pattern) > 0 /\ StartsWith(pattern, <<"r", "(">>) /\ pattern[Len(pattern)] = ")"

\* lines 327-338; the regular expressions modelled are "(" literal ")", which
\* re.match finds exactly at the start of the content
content_match(pattern, content) ==
    IF use_re(pattern) THEN StartsWith(content, SubSeq(pattern, 3, Len(pattern) - 1))
    ELSE IF Len(pattern) > 0 THEN Contains(content, pattern)
    ELSE TRUE

\* lines 340-345
self_check(c, m) ==
    IF m.author # BotId THEN FALSE
    ELSE content_match(c.arg, m.content)

CheckOf(c, m) ==
    CASE c.cmd = "text" -> text_check(c, m)
      [] c.cmd = "user" -> user_check(c, m)
      [] c.cmd = "bot" -> bot_check(c, m)
      [] c.cmd = "self" -> self_check(c, m)
      [] OTHER -> default_check(c, m)

\* the predicate as a table over the channel's message ids
CheckTable(c, chan) == [i \in 1..Len(chan) |-> CheckOf(c, chan[i])]

(***************************************************************************)
(* Inputs of the command handlers.                                         *)
(***************************************************************************)
Ages == {WindowDays * HoursPerDay - 1, WindowDays * HoursPerDay}

Kinds == { <<OtherId, <<"x">> >>, <<OtherId, <<"b">> >>,
           <<BotId, <<"a", "x">> >>, <<ActorId, <<"!", "p">> >> }

Histories ==
    UNION { { [i \in 1..n |-> Msg(i, k[i][1], k[i][2], Now - a[i])] :
                a \in AgeSeqs(n, Ages), k \in [1..n -> Kinds] } : n \in 0..MaxLen }

\* one message more than the confirmation threshold, all recent
LongHistory == [i \in 1..(Threshold + 1) |-> Msg(i, OtherId, <<"x">>, Now - HoursPerDay)]

Numbers == {0, 1, Threshold, Threshold + 1}

Texts == { <<"x">> }

UserArgs == { <<"3">>, <<"9">>, <<"R", "e", "d">>, <<"z">> }

Patterns == { <<>>, <<"x">>, <<"r", "(", "x", ")">> }

\* ids given to `after`: 0 names no message of the channel
MessageIds == 0..MaxLen

Contents == { <<"y">>, <<"Y", "e", "s">>, <<"n">>, <<"n", "y">>, <<>> }

Responses == [author : {ActorId, BotId, OtherId}, where : {"here", "elsewhere"},
              content : Contents]

Init ==
    /\ channel \in Histories \cup {LongHistory}
    /\ is_bot \in BOOLEAN
    /\ ctx = NoContext
    /\ pc = "idle"
    /\ call = NoCall
    /\ result = NoResult
    /\ to_delete = <<>>
    /\ events = <<>>

(***************************************************************************)
(* check_100_plus, lines 22-38.                                            *)
(***************************************************************************)
\* lines 98, 148, 229, 258, 313: if number > 100
NeedsConfirmationFrom100(number) == number >= Threshold
NeedsConfirmation(number) == number > Threshold

\* lines 28-29
author_check(c, message) == message.author = c.author

\* line 34: response.content.lower().startswith('y')
AffirmativeAlways(content) == TRUE
Affirmative(content) == StartsWith(Lower(content), <<"y">>)

\* The command message arrives; the handler runs up to its first wait: the
\* prompt of check_100_plus (line 31) when the count needs confirmation.
\* The prompt and the response are newer than the command message, which
\* every gated subcommand passes as before=, so they never enter its scan
\* and are kept in `events` only.
Enter(c) ==
    /\ channel' = WithCommand(channel, c.author, CommandText)
    /\ ctx' = c
    /\ IF NeedsConfirmation(c.number)
       THEN /\ events' = Append(events, Send("confirm", c.number))
            /\ pc' = "wait_for"
       ELSE /\ events' = events
            /\ pc' = "run"
    /\ UNCHANGED <<is_bot, call, result, to_delete>>

\* The handler ends at once with a reply or an exception.
Abort(c, evs) ==
    /\ channel' = WithCommand(channel, c.author, CommandText)
    /\ ctx' = c
    /\ events' = events \o evs
    /\ pc' = "done"
    /\ UNCHANGED <<is_bot, call, result, to_delete>>

\* lines 32-38: a message that passes author_check arrives
check_100_plus ==
    /\ pc = "wait_for"
    /\ \E response \in Responses :
        /\ author_check(ctx, response)
        /\ LET got == Ev("response", response.where, 0, <<>>, response.content,
                         response.author)
           IN IF Affirmative(response.content)
              THEN /\ events' = Append(events, got)
                   /\ pc' = "run"
              ELSE /\ events' = events \o <<got, Send("cancelled", 0)>>
                   /\ pc' = "done"
    /\ UNCHANGED <<channel, is_bot, ctx, call, result, to_delete>>

(***************************************************************************)
(* The subcommands.  X is the handler up to the gate, X_run the rest of it *)
(* (collection, audit log line, deletion call).                            *)
(***************************************************************************)
\* the deletion call of text, user, messages and bot
DeletionSwapped(bulk, batch) == IF bulk THEN SlowDeletion(batch) ELSE MassPurge(batch)
Deletion(bulk, batch) == IF bulk THEN MassPurge(batch) ELSE SlowDeletion(batch)

\* lines 59-61 and 111-112: discord.Forbidden raised by channel.history is
\* caught neither in get_messages_for_deletion nor in the handler, so it
\* ends the invocation
LeavesHandlerNever(readable) == FALSE
LeavesHandler(readable) == ~readable

\* the handler goes on to await the deletion strategy it called, if any
AfterTail(tail) ==
    IF Len(tail) > 0 /\ tail[Len(tail)].type \in {"mass_purge", "slow_deletion"}
    THEN "delete" ELSE "done"

\* The rest of a handler from its call of the collector: the first page
\* fetch may be refused (the bot cannot read the channel's history).
FinishCall(made, r, batch, tail) ==
    /\ call' = made
    /\ \E readable \in BOOLEAN :
          LET refused == IF readable THEN <<>> ELSE <<Raised("Forbidden")>>
          IN IF LeavesHandler(readable)
             THEN /\ result' = NoResult
                  /\ to_delete' = <<>>
                  /\ events' = events \o refused
                  /\ pc' = "done"
             ELSE /\ result' = r
                  /\ to_delete' = batch
                  /\ events' = events \o refused \o <<Scanned(r)>> \o tail
                  /\ pc' = AfterTail(tail)
    /\ UNCHANGED <<channel, is_bot, ctx>>

Finish(c, r, batch, tail) ==
    FinishCall(Call(c.number, CheckTable(c, channel), CallerLimit, c.message, None),
               r, batch, tail)

Collect(c) ==
    GetMessagesForDeletion(channel[c.message], channel, c.number, CheckTable(c, channel),
                           CallerLimit, c.message, None)

\* lines 86-101
text ==
    /\ pc = "idle"
    /\ \E t \in Texts : \E number \in Numbers :
        Enter(Context("text", ActorId, Len(channel) + 1, number, t, None, FALSE))

\* lines 111-122
text_run ==
    /\ pc = "run" /\ ctx.cmd = "text"
    /\ LET r == Collect(ctx)
       IN Finish(ctx, r, r.to_delete,
                 <<Logged("text", Len(r.to_delete)), Deletion(is_bot, r.to_delete)>>)

\* lines 127-151
user ==
    /\ pc = "idle"
    /\ \E u \in UserArgs : \E number \in Numbers :
        LET member == ConvertMember(u)
            c == [Context("user", ActorId, Len(channel) + 1, number, u, None, FALSE)
                    EXCEPT !.member = member,
                           !.uid = IF member # None THEN member
                                   ELSE IF IsInt(u) THEN IntOf(u) ELSE None]
        IN IF member = None /\ ~IsInt(u)
           THEN Abort(c, <<Raised("BadArgument")>>)
           ELSE Enter(c)

\* lines 161-174; `member` is unbound when the converter failed
user_run ==
    /\ pc = "run" /\ ctx.cmd = "user"
    /\ LET r == Collect(ctx)
       IN IF ctx.member = None
          THEN Finish(ctx, r, r.to_delete, <<Raised("UnboundLocalError")>>)
          ELSE Finish(ctx, r, r.to_delete,
                      <<Logged("user", Len(r.to_delete)), Deletion(is_bot, r.to_delete)>>)

\* line 193: if not is_bot
RefusesAfterNever(bot) == FALSE
RefusesAfter(bot) == ~bot

\* lines 179-202
after ==
    /\ pc = "idle"
    /\ \E message_id \in MessageIds :
        LET c == Context("after", ActorId, Len(channel) + 1, 0, <<>>, message_id, FALSE)
            lookup == Ev("get_message", "lookup", message_id, <<>>, <<>>, None)
        IN IF RefusesAfter(is_bot)
           THEN Abort(c, <<Send("bot_accounts_only", 0)>>)
           ELSE IF message_id \notin 1..Len(channel)
           THEN Abort(c, <<lookup, Send("not_found", 0)>>)
           ELSE /\ channel' = WithCommand(channel, c.author, CommandText)
                /\ ctx' = c
                /\ events' = Append(events, lookup)
                /\ pc' = "run"
                /\ UNCHANGED <<is_bot, call, result, to_delete>>

\* lines 204-213
after_run ==
    /\ pc = "run" /\ ctx.cmd = "after"
    /\ LET check == CheckTable(ctx, channel)
           r == GetMessagesForDeletion(channel[ctx.message], channel, 0, check,
                                       None, None, ctx.message_id)
       IN FinishCall(Call(0, check, None, None, ctx.message_id), r, r.to_delete,
                     <<Logged("after", Len(r.to_delete)), MassPurge(r.to_delete)>>)

\* lines 218-232
messages ==
    /\ pc = "idle"
    /\ \E number \in Numbers :
        Enter(Context("messages", ActorId, Len(channel) + 1, number, <<>>, None, FALSE))

\* lines 234-246: the log line reports `number`
messages_run ==
    /\ pc = "run" /\ ctx.cmd = "messages"
    /\ LET r == Collect(ctx)
       IN Finish(ctx, r, r.to_delete,
                 <<Logged("messages", ctx.number), Deletion(is_bot, r.to_delete)>>)

\* lines 251-261
cleanup_bot ==
    /\ pc = "idle"
    /\ \E number \in Numbers :
        Enter(Context("bot", ActorId, Len(channel) + 1, number, <<>>, None, FALSE))

\* lines 263-295
cleanup_bot_run ==
    /\ pc = "run" /\ ctx.cmd = "bot"
    /\ LET r == Collect(ctx)
       IN Finish(ctx, r, r.to_delete,
                 <<Logged("bot", Len(r.to_delete)), Deletion(is_bot, r.to_delete)>>)

\* lines 298-322: the author may be the bot's own account; can_mass_purge is
\* the bot's manage_messages permission when the author is a guild member
cleanup_self ==
    /\ pc = "idle"
    /\ \E number \in Numbers : \E pattern \in Patterns :
       \E author \in {ActorId, BotId} : \E can_mass_purge \in BOOLEAN :
        Enter(Context("self", author, Len(channel) + 1, number, pattern, None,
                      can_mass_purge))

\* lines 347-369
cleanup_self_run ==
    /\ pc = "run" /\ ctx.cmd = "self"
    /\ LET r == Collect(ctx)
           batch == IF ctx.author = BotId THEN Append(r.to_delete, ctx.message)
                    ELSE r.to_delete
       IN Finish(ctx, r, batch,
                 <<Logged("self", Len(batch)),
                   Deletion(is_bot /\ ctx.can_mass_purge, batch)>>)

(***************************************************************************)
(* The deletion strategies (redbot.core.utils.mod), from their contract:   *)
(* bulk deletion removes the batch chunk by chunk and a failed chunk ends  *)
(* it with the earlier chunks removed; sequential deletion skips a message *)
(* it cannot delete and goes on.                                           *)
(***************************************************************************)
\* the platform's maximum size of one bulk-delete call
BulkMax == 100

Chunks(batch) == (Len(batch) + BulkMax - 1) \div BulkMax

Min(a, b) == IF a < b THEN a ELSE b

LastCall == events[Len(events)]

\* chunks 1..k are removed; chunk k + 1, if there is one, fails
mass_purge ==
    /\ pc = "delete" /\ LastCall.type = "mass_purge"
    /\ \E k \in 0..Chunks(LastCall.ids) :
          LET removed == SubSeq(LastCall.ids, 1, Min(k * BulkMax, Len(LastCall.ids)))
          IN events' = Append(events,
                 Deleted(IF k = Chunks(LastCall.ids) THEN "complete" ELSE "partial",
                         removed))
    /\ pc' = "done"
    /\ UNCHANGED <<channel, is_bot, ctx, call, result, to_delete>>

\* every message is removed, except at most one that could not be deleted
slow_deletion ==
    /\ pc = "delete" /\ LastCall.type = "slow_deletion"
    /\ \E f \in 0..Len(LastCall.ids) :
          LET removed == SelectSeq(LastCall.ids, LAMBDA id : f = 0 \/ id # LastCall.ids[f])
          IN events' = Append(events,
                 Deleted(IF f = 0 THEN "complete" ELSE "partial", removed))
    /\ pc' = "done"
    /\ UNCHANGED <<channel, is_bot, ctx, call, result, to_delete>>

Next ==
    \/ text \/ text_run
    \/ user \/ user_run
    \/ after \/ after_run
    \/ messages \/ messages_run
    \/ cleanup_bot \/ cleanup_bot_run
    \/ cleanup_self \/ cleanup_self_run
    \/ check_100_plus
    \/ mass_purge \/ slow_deletion

Spec == Init /\ [][Next]_vars

\* The event loop resumes a handler that is ready to run; nothing obliges the
\* author to answer the prompt, and wait_for is given no timeout.
FairSpec ==
    /\ Spec
    /\ WF_vars(text_run) /\ WF_vars(user_run) /\ WF_vars(after_run)
    /\ WF_vars(messages_run) /\ WF_vars(cleanup_bot_run) /\ WF_vars(cleanup_self_run)
    /\ WF_vars(mass_purge) /\ WF_vars(slow_deletion)

(***************************************************************************)
(* Vocabulary of the properties.                                           *)
(***************************************************************************)
WindowHours == WindowDays * HoursPerDay

\* hours between the command message and message id
AgeHours(id) == channel[ctx.message].created_at - channel[id].created_at

InWindow(id) == AgeHours(id) < WindowHours

\* every message the call could reach, in scan order
FullScan ==
    IF call.after = None THEN Descending(call.before - 1, 1)
    ELSE Ascending(call.after + 1, Len(channel))

\* the ids the scan looked at, in order
Inspected == SelectSeq(result.scanlog, LAMBDA e : e.type = "inspect")

IsDeletion(e) == e.type \in {"mass_purge", "slow_deletion"}

Counted == {"text", "user", "messages", "bot", "self"}

Returned == pc = "returned"

\* C1: every message of the batch get_messages_for_deletion returns passes
\* the predicate it was given and is less than 14 days older than the
\* command message.
C1_BatchEligible ==
    Returned =>
        \A i \in 1..Len(result.to_delete) :
            call.check[result.to_delete[i]] /\ InWindow(result.to_delete[i])

\* C1 witness: a call returned a batch while a message that passes the
\* predicate but is 14 days old or more was inspected and left out.
C1_Witness ==
    /\ Returned
    /\ Len(result.to_delete) > 0
    /\ \E i \in 1..Len(Inspected) :
          /\ call.check[Inspected[i].id]
          /\ ~InWindow(Inspected[i].id)
          /\ Inspected[i].id \notin Range(result.to_delete)

\* C2: with a requested count N > 0, the batch a counted subcommand hands
\* to the deletion call has at most N messages.
C2_BatchWithinCount ==
    \A i \in 1..Len(events) :
        (IsDeletion(events[i]) /\ ctx.cmd \in Counted /\ ctx.number > 0)
            => Len(events[i].ids) <= ctx.number

\* a response whose text begins with the letter y, in either case
SaysYes(content) == Len(content) > 0 /\ content[1] \in {"y", "Y"}

IsPrompt(e) == e.type = "send" /\ e.what = "confirm"

Prompted == \E i \in 1..Len(events) : IsPrompt(events[i])

\* an affirmative response from the invoking author is among the first j events
ConfirmedBefore(j) ==
    \E i \in 1..(j - 1) :
        /\ events[i].type = "response"
        /\ events[i].author = ctx.author
        /\ SaysYes(events[i].content)

\* C3: a deletion call for a batch of more than 100 messages is issued only
\* after the confirmation gate received an affirmative response.
C3_LargeBatchConfirmed ==
    \A j \in 1..Len(events) :
        (IsDeletion(events[j]) /\ Len(events[j].ids) > Threshold) => ConfirmedBefore(j)

\* C4: when the gate has prompted, a deletion call comes only after an
\* affirmative response; after any other response the invocation is over
\* with no history scan, no audit log line and no deletion call.
C4_ConfirmationPrecedesDeletion ==
    /\ \A j \in 1..Len(events) :
          (Prompted /\ IsDeletion(events[j])) => ConfirmedBefore(j)
    /\ \A i \in 1..Len(events) :
          (events[i].type = "response" /\ ~SaysYes(events[i].content))
              => /\ pc = "done"
                 /\ \A j \in 1..Len(events) :
                       events[j].type \notin {"scan", "log", "mass_purge", "slow_deletion"}

\* C4 witness: a prompted invocation deleted a non-empty batch after "Yes".
C4_Witness ==
    /\ pc = "done"
    /\ Prompted
    /\ \E i \in 1..Len(events) : \E j \in 1..Len(events) :
          /\ i < j
          /\ events[i].type = "response"
          /\ events[i].content = <<"Y", "e", "s">>
          /\ IsDeletion(events[j])
          /\ Len(events[j].ids) > 0

Prompts == Len(SelectSeq(events, IsPrompt))

\* the command framework refused the arguments (commands.BadArgument)
ArgumentRejected ==
    \E i \in 1..Len(events) : events[i].type = "raise" /\ events[i].what = "BadArgument"

\* C5: a counted subcommand prompts exactly once when the requested count
\* is above 100 and never otherwise; with a count of 100 or less it sends
\* nothing and receives no response before it collects.
C5_PromptIffAboveThreshold ==
    (ctx.cmd \in Counted /\ ~ArgumentRejected) =>
        /\ Prompts = (IF ctx.number > Threshold THEN 1 ELSE 0)
        /\ ctx.number <= Threshold =>
              \A i \in 1..Len(events) : events[i].type \notin {"send", "response"}

\* C5 witness: a count of exactly 100 ran to the end without a prompt.
C5_Witness ==
    /\ ctx.cmd \in Counted
    /\ ctx.number = Threshold
    /\ pc = "done"
    /\ Prompts = 0
    /\ \E i \in 1..Len(events) : events[i].type = "scan"

\* C6: once the gate waits for the author's response, the invocation
\* eventually ends (by timing out to "declined" if nothing arrives).
C6_WaitIsBounded == (pc = "wait_for") ~> (pc = "done")

\* position of the first message of s that is 14 days old or more (0: none)
FirstOverAge(s) ==
    IF \E i \in 1..Len(s) : ~InWindow(s[i])
    THEN CHOOSE i \in 1..Len(s) : ~InWindow(s[i]) /\ \A j \in 1..(i - 1) : InWindow(s[j])
    ELSE 0

\* the messages of the requested range up to the first over-age one
Reachable ==
    IF FirstOverAge(FullScan) = 0 THEN FullScan
    ELSE SubSeq(FullScan, 1, FirstOverAge(FullScan) - 1)

Passing(s) == SelectSeq(s, LAMBDA id : call.check[id])

\* C7: with a requested count of 0 the batch holds every message of the
\* requested range that passes the predicate, up to the end of the history
\* or the first over-age message, however many pages that takes.
C7_UnboundedSweep ==
    (Returned /\ call.number = 0) => result.to_delete = Passing(Reachable)

IsOverAgeInspect(e) == e.type = "inspect" /\ ~InWindow(e.id)

\* the call of the scenario: ages 1, 2, 3 and 15 days, the messages aged 1
\* and 3 days pass the predicate, 10 are requested
Scenario ==
    /\ Len(channel) = 5
    /\ [i \in 1..4 |-> AgeHours(i)] =
          <<15 * HoursPerDay, 3 * HoursPerDay, 2 * HoursPerDay, HoursPerDay>>
    /\ call.check = <<FALSE, TRUE, FALSE, TRUE, TRUE>>
    /\ call.number = 10
    /\ call.after = None

\* C8: the scan ends with the first message aged 14 days or more that it
\* looks at: that entry is the last thing the scan did (no later message is
\* inspected, no later page is fetched), and the over-age message is not in
\* the batch.  In the scenario the batch is the messages aged 1 and 3 days.
C8_StopsAtFirstOverAge ==
    Returned =>
        /\ \A i \in 1..Len(result.scanlog) :
              IsOverAgeInspect(result.scanlog[i])
                  => /\ i = Len(result.scanlog)
                     /\ result.too_old
                     /\ result.scanlog[i].id \notin Range(result.to_delete)
        /\ Scenario => result.to_delete = <<4, 2>>

\* C8 witness: the scenario's call has returned, stopped by the age check.
C8_Witness == Returned /\ Scenario /\ result.too_old /\ call.limit = 2

\* C9: when the age check stops the scan, no message the scan had not yet
\* reached in its direction is inside the 14-day window.
C9_NothingLostByStopping ==
    (Returned /\ result.too_old) =>
        \A i \in 1..Len(FullScan) :
            (\A k \in 1..Len(Inspected) : Inspected[k].id # FullScan[i])
                => ~InWindow(FullScan[i])

\* C10: `after` on an account that is not a bot account ends with the error
\* reply alone: no message lookup, no history scan, no audit log line, no
\* deletion call.
C10_AfterNeedsBotAccount ==
    (ctx.cmd = "after" /\ ~is_bot) =>
        /\ pc = "done"
        /\ events = <<Send("bot_accounts_only", 0)>>
        /\ to_delete = <<>>
        /\ result = NoResult

\* C10 witness: `after` was invoked on a user account, in a channel with
\* messages after the named one.
C10_Witness ==
    /\ ctx.cmd = "after"
    /\ ~is_bot
    /\ pc = "done"
    /\ ctx.message_id \in 1..(Len(channel) - 2)

IsCall(e) == e.type \in {"mass_purge", "slow_deletion"}

Calls == SelectSeq(events, IsCall)

IsLog(e) == e.type = "log"

Logs == SelectSeq(events, IsLog)

IsOutcome(e) == e.type = "deleted"

Outcomes == SelectSeq(events, IsOutcome)

\* the account may delete in bulk: a bot account, and for `self` one that
\* holds manage_messages in the channel
BulkCapable == is_bot /\ (ctx.cmd = "self" => ctx.can_mass_purge)

\* C11: an invocation that reaches execution (it has written its log line)
\* has called exactly one deletion strategy: mass_purge when the account is
\* bulk-capable (for `self`: and holds manage_messages), slow_deletion
\* otherwise.
C11_OneStrategy ==
    Len(Logs) > 0 =>
        /\ Len(Calls) = 1
        /\ Calls[1].type = (IF BulkCapable THEN "mass_purge" ELSE "slow_deletion")
        /\ Calls[1].ids = to_delete

\* C11 witness: `self` on a bot account without manage_messages deleted a
\* non-empty batch one message at a time.
C11_Witness ==
    /\ ctx.cmd = "self" /\ is_bot /\ ~ctx.can_mass_purge
    /\ pc = "done"
    /\ Len(Calls) = 1 /\ Calls[1].type = "slow_deletion" /\ Len(Calls[1].ids) > 0

\* C12: when a deletion strategy removed only N of the M messages of its
\* batch, the count the invocation reports (its log line) is N.
C12_PartialFailureReported ==
    (Len(Outcomes) = 1 /\ Outcomes[1].n < Len(to_delete))
        => (Len(Logs) = 1 /\ Logs[1].n = Outcomes[1].n)

\* positions of the first event of each kind (0: none)
FirstAt(P(_)) ==
    IF \E i \in 1..Len(events) : P(events[i])
    THEN CHOOSE i \in 1..Len(events) :
            P(events[i]) /\ \A j \in 1..(i - 1) : ~P(events[j])
    ELSE 0

\* C13: an invocation that deletes writes exactly one audit record, and it
\* writes it after the deletion strategy has ended: no audit record exists
\* while the deletion has not ended.
C13_AuditAfterDeletion ==
    /\ Len(Outcomes) > 0 => Len(Logs) = 1
    /\ Len(Logs) > 0 => (Len(Outcomes) > 0 /\ FirstAt(IsOutcome) < FirstAt(IsLog))

FetchRefused ==
    \E i \in 1..Len(events) : events[i].type = "raise" /\ events[i].what = "Forbidden"

\* C14: when the first page fetch is refused, the invocation is over with
\* no batch, no audit log line and no deletion call.
C14_RefusedFetchAborts ==
    FetchRefused =>
        /\ pc = "done"
        /\ to_delete = <<>>
        /\ result = NoResult
        /\ Len(Calls) = 0 /\ Len(Logs) = 0 /\ Len(Outcomes) = 0

\* C14 witness: a confirmed invocation (count above 100) was refused the
\* history of a channel that holds messages it would have deleted.
C14_Witness ==
    /\ FetchRefused
    /\ Prompted
    /\ ctx.cmd = "messages"
    /\ Len(channel) > Threshold

\* C15: the gate takes a response only from the invoking author in the
\* channel of the invocation.
C15_ResponseSameContext ==
    \A i \in 1..Len(events) :
        events[i].type = "response"
            => (events[i].author = ctx.author /\ events[i].what = "here")

InspectedIds == [i \in 1..Len(Inspected) |-> Inspected[i].id]

\* position of id in the sequence s of distinct ids (0: not in it)
PosIn(s, id) ==
    IF \E i \in 1..Len(s) : s[i] = id THEN CHOOSE i \in 1..Len(s) : s[i] = id ELSE 0

\* s picks elements of t in t's order, none of them twice
IsSubsequence(s, t) ==
    /\ \A i \in 1..Len(s) : PosIn(t, s[i]) > 0
    /\ \A i \in 1..Len(s) : \A j \in 1..Len(s) : i < j => PosIn(t, s[i]) < PosIn(t, s[j])

\* the calls the cog makes: newest first with any predicate and page size,
\* or oldest first in one page with the predicate that admits everything
CallOfTheCog ==
    \/ call.after = None
    \/ (call.limit = None /\ \A i \in (call.after + 1)..Len(channel) : call.check[i])

\* C16: over any number of pages the scan looks at the history in scan
\* order, message by message, each page starting right beyond the last
\* message scanned; the batch is a duplicate-free subsequence of it, and a
\* batch smaller than the requested count holds every message that passes
\* the predicate up to the end of the history or the first over-age message.
C16_BatchIsOrderedAndComplete ==
    (Returned /\ CallOfTheCog) =>
        /\ Len(InspectedIds) <= Len(FullScan)
        /\ InspectedIds = SubSeq(FullScan, 1, Len(InspectedIds))
        /\ IsSubsequence(result.to_delete, FullScan)
        /\ Len(result.to_delete) < call.number
              => result.to_delete = Passing(Reachable)

\* C16 witness: a scan of three pages returned a batch smaller than the
\* requested count, having passed over a message that fails the predicate.
C16_Witness ==
    /\ Returned
    /\ call.after = None
    /\ Len(SelectSeq(result.scanlog, LAMBDA e : e.type = "fetch")) >= 3
    /\ Len(result.to_delete) >= 2
    /\ Len(result.to_delete) < call.number
    /\ \E i \in 1..Len(InspectedIds) : ~call.check[InspectedIds[i]]

\* The scan order and the batch order for every call the collector accepts.
\* This fails for an oldest-first call that fetches a second page (a
\* predicate that rejects the whole first page): line 73 sets before= to the
\* newest message scanned, and the next page starts again after `after`.
C16_AnyCall ==
    Returned =>
        /\ Len(InspectedIds) <= Len(FullScan)
        /\ InspectedIds = SubSeq(FullScan, 1, Len(InspectedIds))
        /\ IsSubsequence(result.to_delete, FullScan)

Declined ==
    \E i \in 1..Len(events) : events[i].type = "send" /\ events[i].what = "cancelled"

\* C17: `cleanup user` with an identity that is no guild member but parses
\* as an integer completes: it collects, writes the audit log line and
\* calls a deletion strategy.
C17_UnresolvedUserCompletes ==
    (/\ ctx.cmd = "user" /\ ctx.member = None /\ ctx.uid # None
     /\ pc = "done" /\ ~Declined /\ ~FetchRefused)
        => (Len(Logs) = 1 /\ Len(Calls) = 1)

====
